---- MODULE Spec2Model ----
(***************************************************************************)
(* A model of camel, a lexer, parser and evaluator for the untyped lambda  *)
(* calculus.  The lexer (src/src/lexer.rs), the recursive-descent parser   *)
(* (src/src/parser.rs), the Display rendering (src/src/ast.rs) and the     *)
(* evaluator (src/src/eval.rs) are pure computations over a source string  *)
(* or a term; each is an operator computed as the code computes it, and    *)
(* the actions below apply them to inputs drawn from bounded sets.         *)
(***************************************************************************)
EXTENDS Integers, Sequences, FiniteSets, TLC

VARIABLES
  lexer,        \* Lexer { chars, buffer, pos, start } of the lexer run
  ret,          \* what the last next_token call returned (None before any call)
  returned,     \* the tokens the next_token calls returned so far, in order
  ncalls,       \* how many next_token calls were made
  input,        \* the source string handed to Parser::new
  phase,        \* the parser run: "new", "parsed", "reparsed" ("idle": none)
  result,       \* what parse_term returned on input
  rendered,     \* to_string() of the parsed term
  reparsed,     \* what parse_term returned on rendered
  term,         \* the term handed to eval
  stack,        \* eval's call stack: one frame per active eval call
  value,        \* the value the last finished eval call returned
  steps         \* how many eval calls were entered

vars == <<lexer, ret, returned, ncalls, input, phase, result, rendered,
          reparsed, term, stack, value, steps>>

lexVars == <<lexer, ret, returned, ncalls>>
parseVars == <<input, phase, result, rendered, reparsed>>
evalVars == <<term, stack, value, steps>>

----------------------------------------------------------------------------
(* Bounds of the model. *)

\* longest source string, in characters, of a lexer run
MaxLen == 4
\* most next_token calls made on one lexer
MaxCalls == 6
\* longest source string, in words of ParserWords, of a parser run
MaxWords == 5
\* most nodes of a term handed to eval
MaxNodes == 7

----------------------------------------------------------------------------
(* Characters and strings.  A string is a sequence of characters; a        *)
(* character is a one-character TLA+ string.                               *)

LowerChars == {"x", "y"}
UpperChars == {"B"}
DigitChars == {"1"}
WhiteChars == {" "}

\* char::len_utf8: the lambda sign takes two bytes, every other character here one
CharLen(c) == IF c = "λ" THEN 2 ELSE 1

\* char::is_whitespace
IsWhitespace(c) == c \in WhiteChars

\* char::is_ascii_alphanumeric
IsAsciiAlphanumeric(c) == c \in LowerChars \cup UpperChars \cup DigitChars

RECURSIVE ByteLen(_)
\* str::len: the length of a string in bytes
ByteLen(s) == IF s = <<>> THEN 0 ELSE CharLen(Head(s)) + ByteLen(Tail(s))

RECURSIVE ByteSlice(_, _, _)
\* &s[a..b]: the characters of s that start at a byte offset in [a, b)
ByteSlice(s, a, b) ==
  IF s = <<>> \/ b <= 0 THEN <<>>
  ELSE IF a > 0 THEN ByteSlice(Tail(s), a - CharLen(Head(s)), b - CharLen(Head(s)))
  ELSE <<Head(s)>> \o ByteSlice(Tail(s), 0, b - CharLen(Head(s)))

----------------------------------------------------------------------------
(* Tokens (src/src/token.rs). *)

TokenKind == {"LeftParen", "RightParen", "Lambda", "Dot", "LowercaseId", "Unknown"}

Token(kind, text) == [kind |-> kind, text |-> text]

\* Option::None
None == [kind |-> "None", text |-> <<>>]

----------------------------------------------------------------------------
(* The lexer (src/src/lexer.rs).  chars is the number of characters the    *)
(* Peekable<Chars> iterator has yielded; pos and start are byte offsets.   *)

\* Lexer::new
NewLexer(inp) == [buffer |-> inp, chars |-> 0, pos |-> 0, start |-> 0]

\* Lexer::peek: the next character, or None at the end of the input
Peek(lx) == IF lx.chars < Len(lx.buffer) THEN lx.buffer[lx.chars + 1] ELSE "None"

\* advance with `self.pos += 1` in place of `next_char.len_utf8()`
AdvanceOneByte(lx) ==
  IF lx.chars < Len(lx.buffer)
  THEN [lx EXCEPT !.chars = @ + 1, !.pos = @ + 1]
  ELSE lx

\* Lexer::advance: take one character and move pos past its bytes
Advance(lx) ==
  IF Peek(lx) = "None" THEN lx
  ELSE [lx EXCEPT !.chars = @ + 1, !.pos = @ + CharLen(Peek(lx))]

RECURSIVE SkipWhitespace(_)
\* Lexer::skip_whitespace
SkipWhitespace(lx) ==
  IF Peek(lx) # "None" /\ IsWhitespace(Peek(lx))
  THEN SkipWhitespace(Advance(lx))
  ELSE lx

\* Lexer::create_token: a one-character token of the given kind
CreateToken(lx, kind) ==
  LET l1 == Advance(lx)
  IN  [lexer |-> l1,
       token |-> Token(kind, ByteSlice(l1.buffer, l1.start, l1.pos))]

RECURSIVE ReadLcidLoop(_), ReadLcidLoopLowercase(_)
\* read_lcid's loop with is_ascii_lowercase in place of is_ascii_alphanumeric
ReadLcidLoopLowercase(lx) ==
  IF Peek(lx) # "None" /\ Peek(lx) \in LowerChars
  THEN ReadLcidLoopLowercase(Advance(lx))
  ELSE lx

\* the while loop of Lexer::read_lcid
ReadLcidLoop(lx) ==
  IF Peek(lx) # "None" /\ IsAsciiAlphanumeric(Peek(lx))
  THEN ReadLcidLoop(Advance(lx))
  ELSE lx

\* Lexer::read_lcid
ReadLcid(lx) ==
  LET l1 == ReadLcidLoop(lx)
  IN  [lexer |-> l1,
       token |-> Token("LowercaseId", ByteSlice(l1.buffer, l1.start, l1.pos))]

\* Lexer::next_token
NextToken(lx) ==
  LET l0 == SkipWhitespace(lx)
      l1 == [l0 EXCEPT !.start = l0.pos]
      c  == Peek(l1)
  IN  IF c = "None" THEN [lexer |-> l1, token |-> None]
      ELSE IF c = "(" THEN CreateToken(l1, "LeftParen")
      ELSE IF c = ")" THEN CreateToken(l1, "RightParen")
      ELSE IF c = "λ" \/ c = "\\" THEN CreateToken(l1, "Lambda")
      ELSE IF c = "." THEN CreateToken(l1, "Dot")
      ELSE IF c \in LowerChars THEN ReadLcid(l1)
      ELSE CreateToken(l1, "Unknown")

----------------------------------------------------------------------------
(* Terms (src/src/ast.rs). *)

\* Node::Identifier
Identifier(name) == [type |-> "Identifier", name |-> name]

\* Node::Abstraction
Abstraction(param, body) == [type |-> "Abstraction", param |-> param, body |-> body]

\* Node::Application
Application(lhs, rhs) == [type |-> "Application", lhs |-> lhs, rhs |-> rhs]

RECURSIVE Render(_)
\* impl Display for Node: to_string()
Render(node) ==
  IF node.type = "Abstraction"
  THEN <<"(", "λ">> \o node.param \o <<".", " ">> \o Render(node.body) \o <<")">>
  ELSE IF node.type = "Application"
  THEN Render(node.lhs) \o <<" ">> \o Render(node.rhs)
  ELSE node.name

----------------------------------------------------------------------------
(* The parser (src/src/parser.rs).  A parser is the lexer and the one      *)
(* token of lookahead; every parse function returns its Result together    *)
(* with the parser it leaves behind.                                       *)

\* ParserError::UnexpectedToken(TokenError::from(token))
UnexpectedToken(token) == [error |-> "UnexpectedToken", token |-> token]

\* ParserError::UnexpectedEndOfInput
UnexpectedEndOfInput == [error |-> "UnexpectedEndOfInput", token |-> None]

NoNode == [type |-> "None"]
NoError == [error |-> "None", token |-> None]

\* Ok(node), leaving parser p
Ok(node, p) == [ok |-> TRUE, node |-> node, err |-> NoError, p |-> p]

\* Err(e), leaving parser p
Err(e, p) == [ok |-> FALSE, node |-> NoNode, err |-> e, p |-> p]

\* Parser::advance
ParserAdvance(p) ==
  LET r == NextToken(p.lexer)
  IN  [lexer |-> r.lexer, current_token |-> r.token]

\* Parser::new
NewParser(inp) == ParserAdvance([lexer |-> NewLexer(inp), current_token |-> None])

\* Parser::current_kind
CurrentKind(p) == p.current_token.kind

\* the error of a position that does not accept the current token
Unexpected(p) ==
  IF CurrentKind(p) = "None"
  THEN Err(UnexpectedEndOfInput, p)
  ELSE Err(UnexpectedToken(p.current_token), p)

\* expect that takes the token before it looks at it
ExpectLate(p, kind) ==
  IF CurrentKind(p) = kind
  THEN Ok(NoNode, ParserAdvance(p))
  ELSE Unexpected(ParserAdvance(p))

\* Parser::expect
Expect(p, kind) ==
  IF CurrentKind(p) = kind THEN Ok(NoNode, ParserAdvance(p)) ELSE Unexpected(p)

\* Parser::parse_identifier
ParseIdentifier(p) ==
  IF CurrentKind(p) = "None"
  THEN Err(UnexpectedEndOfInput, p)
  ELSE Ok(Identifier(p.current_token.text), ParserAdvance(p))

\* the token kinds that continue an application
AtomStart == {"LowercaseId", "LeftParen"}

RECURSIVE ParseTerm(_), ParseAbstraction(_), ParseApplication(_),
          ParseApplicationLoop(_, _), ParseAtom(_), ParseParenthesized(_)

\* Parser::parse_term
ParseTerm(p) ==
  IF CurrentKind(p) = "Lambda" THEN ParseAbstraction(p) ELSE ParseApplication(p)

\* parse_abstraction, its end: `Ok(Node::Abstraction(..))` unless the body failed
AbstractionBody(param, body) ==
  IF ~body.ok THEN body ELSE Ok(Abstraction(param, body.node), body.p)

\* parse_abstraction after the parameter: `self.expect(TokenKind::Dot)?`, then
\* `self.parse_term()?`
AbstractionDot(param, dot) ==
  IF ~dot.ok THEN dot ELSE AbstractionBody(param, ParseTerm(dot.p))

\* parse_abstraction after the lambda: the match on the parameter's token
AbstractionParam(p) ==
  IF CurrentKind(p) # "LowercaseId" THEN Unexpected(p)
  ELSE AbstractionDot(p.current_token.text, Expect(ParserAdvance(p), "Dot"))

\* Parser::parse_abstraction
ParseAbstraction(p) == AbstractionParam(ParserAdvance(p))

\* a fold that nests to the right: Application { lhs, rhs: <the rest> }
ApplicationRightNest(lhs, rest) ==
  IF ~rest.ok THEN rest ELSE Ok(Application(lhs, rest.node), rest.p)

\* the loop's body with the rest of the application folded under rhs
ApplicationFoldRight(lhs, rhs) ==
  IF ~rhs.ok THEN rhs
  ELSE ApplicationRightNest(lhs, ParseApplicationLoop(rhs.node, rhs.p))

\* the body of parse_application's loop: `let rhs = self.parse_atom()?` and the fold
ApplicationFold(lhs, rhs) ==
  IF ~rhs.ok THEN rhs ELSE ParseApplicationLoop(Application(lhs, rhs.node), rhs.p)

\* the while loop of Parser::parse_application
ParseApplicationLoop(lhs, p) ==
  IF CurrentKind(p) \in AtomStart THEN ApplicationFold(lhs, ParseAtom(p)) ELSE Ok(lhs, p)

\* parse_application after `let mut lhs = self.parse_atom()?`
ApplicationFirst(lhs) ==
  IF ~lhs.ok THEN lhs ELSE ParseApplicationLoop(lhs.node, lhs.p)

\* Parser::parse_application
ParseApplication(p) == ApplicationFirst(ParseAtom(p))

\* Parser::parse_atom
ParseAtom(p) ==
  IF CurrentKind(p) = "LeftParen" THEN ParseParenthesized(p)
  ELSE IF CurrentKind(p) = "LowercaseId" THEN ParseIdentifier(p)
  ELSE Unexpected(p)

\* parse_parenthesized, its end: `Ok(term)` unless the closing parenthesis failed
ParenthesizedClose(inner, close) ==
  IF ~close.ok THEN close ELSE Ok(inner.node, close.p)

\* parse_parenthesized that takes the end of the input for the closing parenthesis
ParenthesizedInnerLenient(inner) ==
  IF ~inner.ok THEN inner
  ELSE IF CurrentKind(inner.p) = "None" THEN Ok(inner.node, inner.p)
  ELSE ParenthesizedClose(inner, Expect(inner.p, "RightParen"))

\* parse_parenthesized after `let term = self.parse_term()?`
ParenthesizedInner(inner) ==
  IF ~inner.ok THEN inner
  ELSE ParenthesizedClose(inner, Expect(inner.p, "RightParen"))

\* Parser::parse_parenthesized
ParseParenthesized(p) == ParenthesizedInner(ParseTerm(ParserAdvance(p)))

\* Parser::new(inp).parse_term()
Parse(inp) == ParseTerm(NewParser(inp))

----------------------------------------------------------------------------
(* The evaluator (src/src/eval.rs). *)

RECURSIVE Substitute(_, _)
\* substitute(value, node): the identifiers named "x" are replaced
Substitute(val, node) ==
  IF node.type = "Identifier"
  THEN IF node.name = <<"x">> THEN val ELSE node
  ELSE IF node.type = "Application"
  THEN Application(Substitute(val, node.lhs), Substitute(val, node.rhs))
  ELSE Abstraction(node.param, Substitute(val, node.body))

\* the Application arm with lhs and rhs swapped in the rebuilt Application
EvalApplySwapped(lhs, rhs) ==
  IF lhs.type = "Abstraction" THEN Substitute(rhs, lhs.body) ELSE Application(rhs, lhs)

\* the end of eval's Application arm, given the evaluated lhs and rhs
EvalApply(lhs, rhs) ==
  IF lhs.type = "Abstraction" THEN Substitute(rhs, lhs.body) ELSE Application(lhs, rhs)

RECURSIVE Eval(_)
\* eval(node)
Eval(node) ==
  IF node.type = "Application"
  THEN EvalApply(Eval(node.lhs), Eval(node.rhs))
  ELSE node

(* eval as the machine runs it: a stack with one frame per active call.    *)
(* A frame is at "start" when the call is entered, at "lhs" while          *)
(* eval(app.lhs) runs, at "rhs" while eval(app.rhs) runs.                  *)

NoValue == [type |-> "None"]

\* the frame of a call eval(node)
Frame(node) == [node |-> node, pc |-> "start", lhs |-> NoValue]

\* the stack without its top frame
Pop(stk) == SubSeq(stk, 1, Len(stk) - 1)

\* the stack with its top frame replaced
SetTop(stk, fr) == [stk EXCEPT ![Len(stk)] = fr]

\* the Application arm with eval called again on the substituted body
FinishApplicationReEval(stk, n, lhs, rhs) ==
  IF lhs.type = "Abstraction"
  THEN [stack |-> Append(Pop(stk), Frame(Substitute(rhs, lhs.body))),
        value |-> NoValue,
        steps |-> n + 1]
  ELSE [stack |-> Pop(stk), value |-> Application(lhs, rhs), steps |-> n]

\* eval's Application arm once both calls returned: the call returns the
\* substituted body or the rebuilt application to its caller, as it is
FinishApplication(stk, n, lhs, rhs) ==
  [stack |-> Pop(stk), value |-> EvalApply(lhs, rhs), steps |-> n]

----------------------------------------------------------------------------
(* Inputs. *)

RECURSIVE SeqsUpTo(_, _)
\* the sequences over S of length at most n
SeqsUpTo(S, n) ==
  IF n = 0 THEN {<<>>}
  ELSE LET shorter == SeqsUpTo(S, n - 1)
       IN  shorter \cup {Append(s, c) : s \in shorter, c \in S}

RECURSIVE Concat(_)
\* the concatenation of a sequence of strings
Concat(ws) == IF ws = <<>> THEN <<>> ELSE Head(ws) \o Concat(Tail(ws))

\* the characters of the lexer runs
LexerChars == {"(", ")", "λ", "\\", ".", " ", "x", "B", "1"}

\* the sources of the lexer runs
LexerInputs == SeqsUpTo(LexerChars, MaxLen)

\* the words the sources of the parser runs are made of; y comes with a blank
\* before it, so that a source can hold two identifiers in a row
ParserWords == {<<"(">>, <<")">>, <<"λ">>, <<".">>, <<"x">>, <<" ", "y">>, <<"B">>}

\* the sources of the parser runs
ParserInputs == {Concat(ws) : ws \in SeqsUpTo(ParserWords, MaxWords)}

\* the names of the terms handed to eval
EvalNames == {<<"x">>, <<"y">>}

RECURSIVE TermsOfSize(_)
\* the terms over EvalNames with exactly n nodes
TermsOfSize(n) ==
  IF n = 0 THEN {}
  ELSE IF n = 1 THEN {Identifier(v) : v \in EvalNames}
  ELSE {Abstraction(v, b) : v \in EvalNames, b \in TermsOfSize(n - 1)}
       \cup UNION {{Application(l, r) : l \in TermsOfSize(i), r \in TermsOfSize(n - 1 - i)}
                   : i \in 1..(n - 2)}

\* the terms of the tests of eval.rs: (λx.x)(λy.y) and (λx.(λy.y))(λz.z)
TestTerms ==
  {Application(Abstraction(<<"x">>, Identifier(<<"x">>)),
               Abstraction(<<"y">>, Identifier(<<"y">>))),
   Application(Abstraction(<<"x">>, Abstraction(<<"y">>, Identifier(<<"y">>))),
               Abstraction(<<"z">>, Identifier(<<"z">>)))}

\* (λx. x x) (λx. x x)
Omega ==
  LET half == Abstraction(<<"x">>, Application(Identifier(<<"x">>), Identifier(<<"x">>)))
  IN  Application(half, half)

\* the terms handed to eval
EvalTerms == TestTerms \cup {Omega} \cup UNION {TermsOfSize(n) : n \in 1..MaxNodes}

----------------------------------------------------------------------------
(* The lexer runs: next_token is called again and again on one lexer. *)

InitIdleLexer ==
  /\ lexer = NewLexer(<<>>)
  /\ ret = None
  /\ returned = <<>>
  /\ ncalls = 0

InitIdleParser ==
  /\ input = <<>>
  /\ phase = "idle"
  /\ result = Err(NoError, NewParser(<<>>))
  /\ rendered = <<>>
  /\ reparsed = Err(NoError, NewParser(<<>>))

InitIdleEval ==
  /\ term = NoValue
  /\ stack = <<>>
  /\ value = NoValue
  /\ steps = 0

InitLexer ==
  /\ lexer \in {NewLexer(inp) : inp \in LexerInputs}
  /\ ret = None
  /\ returned = <<>>
  /\ ncalls = 0
  /\ InitIdleParser
  /\ InitIdleEval

\* one call of Lexer::next_token
LexNextToken ==
  /\ ncalls < MaxCalls
  /\ LET r == NextToken(lexer)
     IN  /\ lexer' = r.lexer
         /\ ret' = r.token
         /\ returned' = IF r.token = None THEN returned ELSE Append(returned, r.token)
  /\ ncalls' = ncalls + 1
  /\ UNCHANGED <<parseVars, evalVars>>

NextLexer == LexNextToken

SpecLexer == InitLexer /\ [][NextLexer]_vars

----------------------------------------------------------------------------
(* The parser runs: a source is parsed, the term is rendered and the       *)
(* rendering is parsed again.                                              *)

InitParser ==
  /\ input \in ParserInputs
  /\ phase = "new"
  /\ result = Err(NoError, NewParser(<<>>))
  /\ rendered = <<>>
  /\ reparsed = Err(NoError, NewParser(<<>>))
  /\ InitIdleLexer
  /\ InitIdleEval

\* Parser::new(input).parse_term()
ParseInput ==
  /\ phase = "new"
  /\ result' = Parse(input)
  /\ phase' = "parsed"
  /\ UNCHANGED <<input, rendered, reparsed, lexVars, evalVars>>

\* ast.to_string(), and Parser::new of it, parse_term()
RenderAndReparse ==
  /\ phase = "parsed"
  /\ result.ok
  /\ rendered' = Render(result.node)
  /\ reparsed' = Parse(Render(result.node))
  /\ phase' = "reparsed"
  /\ UNCHANGED <<input, result, lexVars, evalVars>>

NextParser == ParseInput \/ RenderAndReparse

SpecParser == InitParser /\ [][NextParser]_vars

----------------------------------------------------------------------------
(* The eval runs. *)

InitEval ==
  /\ term \in EvalTerms
  /\ stack = <<Frame(term)>>
  /\ value = NoValue
  /\ steps = 1
  /\ InitIdleLexer
  /\ InitIdleParser

Top == stack[Len(stack)]

\* eval on an Identifier or an Abstraction: `_ => node.clone()`
EvalLeaf ==
  /\ stack # <<>>
  /\ Top.pc = "start"
  /\ Top.node.type # "Application"
  /\ value' = Top.node
  /\ stack' = Pop(stack)
  /\ UNCHANGED <<term, steps, lexVars, parseVars>>

\* eval on an Application: `let lhs = eval(app.lhs.clone())` is entered
EvalApplication ==
  /\ stack # <<>>
  /\ Top.pc = "start"
  /\ Top.node.type = "Application"
  /\ stack' = Append(SetTop(stack, [Top EXCEPT !.pc = "lhs"]), Frame(Top.node.lhs))
  /\ steps' = steps + 1
  /\ UNCHANGED <<term, value, lexVars, parseVars>>

\* eval(app.lhs) returned: `let rhs = eval(app.rhs.clone())` is entered
EvalLhsReturned ==
  /\ stack # <<>>
  /\ Top.pc = "lhs"
  /\ value # NoValue
  /\ stack' = Append(SetTop(stack, [Top EXCEPT !.pc = "rhs", !.lhs = value]),
                     Frame(Top.node.rhs))
  /\ value' = NoValue
  /\ steps' = steps + 1
  /\ UNCHANGED <<term, lexVars, parseVars>>

\* eval(app.rhs) returned: the rest of the Application arm
EvalRhsReturned ==
  /\ stack # <<>>
  /\ Top.pc = "rhs"
  /\ value # NoValue
  /\ LET r == FinishApplication(stack, steps, Top.lhs, value)
     IN  /\ stack' = r.stack
         /\ value' = r.value
         /\ steps' = r.steps
  /\ UNCHANGED <<term, lexVars, parseVars>>

NextEval == EvalLeaf \/ EvalApplication \/ EvalLhsReturned \/ EvalRhsReturned

SpecEval == InitEval /\ [][NextEval]_vars

\* the eval run goes on until it returns: nothing else runs (spec.md, section 5)
SpecEvalFair == SpecEval /\ WF_vars(NextEval)

\* the outermost eval call returned
EvalDone == stack = <<>> /\ value # NoValue

----------------------------------------------------------------------------
(* Claims about the lexer, checked under SpecLexer. *)

\* how many next_token calls returned None so far
NoneReturns == ncalls - Len(returned)

\* C8: end of input is absorbing.  Once a next_token call has returned None,
\* every later call returns None and leaves the cursor where it is, at the
\* end of the input; and no call ever moves the cursor backwards.
C8_EndOfInputAbsorbing ==
  [][/\ lexer'.pos >= lexer.pos
     /\ (ncalls > 0 /\ ret = None) =>
          /\ ret' = None
          /\ lexer'.pos = lexer.pos
          /\ lexer'.pos = ByteLen(lexer.buffer)]_vars

\* C8 witness: tokens were returned, then None twice, on an input with a lambda sign
C8_Witness ==
  /\ returned # <<>>
  /\ NoneReturns >= 2
  /\ ret = None
  /\ \E i \in 1..Len(lexer.buffer) : lexer.buffer[i] = "λ"
  /\ lexer.pos = ByteLen(lexer.buffer)

\* C10 as claimed: a LowercaseId token ends before the first uppercase
\* character, so no LowercaseId token holds an uppercase character.
C10_StopsAtUppercase ==
  \A i \in 1..Len(returned) :
    returned[i].kind = "LowercaseId" =>
      \A j \in 1..Len(returned[i].text) : returned[i].text[j] \notin UpperChars

\* C10 as amended: a LowercaseId token starts at a lowercase letter and runs
\* over every ASCII alphanumeric character that follows it, uppercase letters
\* and digits included, up to the first other character or the end of the
\* input; an input that starts with an uppercase letter yields Unknown with
\* that one letter first.
C10_LcidTakesAlphanumericRun ==
  /\ ret.kind = "LowercaseId" =>
       LET n == Len(ret.text)
           e == lexer.chars
       IN  /\ n >= 1
           /\ ret.text = SubSeq(lexer.buffer, e - n + 1, e)
           /\ ret.text[1] \in LowerChars
           /\ \A j \in 1..n : IsAsciiAlphanumeric(ret.text[j])
           /\ e < Len(lexer.buffer) => ~IsAsciiAlphanumeric(lexer.buffer[e + 1])
           /\ (e - n >= 1 /\ IsAsciiAlphanumeric(lexer.buffer[e - n])) =>
                lexer.buffer[e - n] \notin LowerChars
  /\ (returned # <<>> /\ lexer.buffer[1] \in UpperChars) =>
       returned[1] = Token("Unknown", <<lexer.buffer[1]>>)

\* C10 witness: a LowercaseId token that holds an uppercase character and a digit
C10_Witness ==
  /\ ret.kind = "LowercaseId"
  /\ \E j \in 1..Len(ret.text) : ret.text[j] \in UpperChars
  /\ \E j \in 1..Len(ret.text) : ret.text[j] \in DigitChars

----------------------------------------------------------------------------
(* Claims about the parser, checked under SpecParser. *)

RECURSIVE LexAll(_)
\* the tokens collected after a next_token call returned r
LexAllFrom(r) ==
  IF r.token = None THEN <<>> ELSE <<r.token>> \o LexAll(r.lexer)

\* the tokens next_token returns on a lexer until it returns None
LexAll(lx) == LexAllFrom(NextToken(lx))

\* the tokens of a source
TokensOf(inp) == LexAll(NewLexer(inp))

RECURSIVE Untokenize(_)
\* a source that lexes to the given tokens: their texts, a space after each
Untokenize(toks) ==
  IF toks = <<>> THEN <<>> ELSE Head(toks).text \o <<" ">> \o Untokenize(Tail(toks))

\* the index, among the tokens of input, of the token the parser was left at
\* (one past the last when it was left at the end of the input)
StoppedAt(toks, res) ==
  IF res.p.current_token = None
  THEN Len(toks) + 1
  ELSE Len(TokensOf(SubSeq(input, 1, res.p.lexer.chars)))

(* The grammar positions of spec.md section 4.3, walked token by token:    *)
(*   "term"  a term must start here (LAMBDA, LCID or LPAREN)               *)
(*   "param" the parameter of an abstraction must follow (LCID)            *)
(*   "dot"   the dot of an abstraction must follow (DOT)                   *)
(*   "atoms" at least one atom was read: another atom may follow; inside   *)
(*           d > 0 open parentheses RPAREN closes one, and nothing else    *)
(*           may follow; outside any parenthesis the term ends here.       *)
RECURSIVE Scan(_, _, _, _)
Scan(toks, i, pos, d) ==
  IF i > Len(toks)
  THEN [verdict |-> IF pos = "atoms" /\ d = 0 THEN "ok" ELSE "eoi", at |-> i, pos |-> pos]
  ELSE LET k == toks[i].kind
           bad == [verdict |-> "unexpected", at |-> i, pos |-> pos]
       IN  IF pos = "term"
           THEN IF k = "Lambda" THEN Scan(toks, i + 1, "param", d)
                ELSE IF k = "LowercaseId" THEN Scan(toks, i + 1, "atoms", d)
                ELSE IF k = "LeftParen" THEN Scan(toks, i + 1, "term", d + 1)
                ELSE bad
           ELSE IF pos = "param"
           THEN IF k = "LowercaseId" THEN Scan(toks, i + 1, "dot", d) ELSE bad
           ELSE IF pos = "dot"
           THEN IF k = "Dot" THEN Scan(toks, i + 1, "term", d) ELSE bad
           ELSE IF k = "LowercaseId" THEN Scan(toks, i + 1, "atoms", d)
                ELSE IF k = "LeftParen" THEN Scan(toks, i + 1, "term", d + 1)
                ELSE IF d = 0 THEN [verdict |-> "ok", at |-> i, pos |-> pos]
                ELSE IF k = "RightParen" THEN Scan(toks, i + 1, "atoms", d - 1)
                ELSE bad

\* what the grammar says of a sequence of tokens
Grammar(toks) == Scan(toks, 1, "term", 0)

RECURSIVE CloseOf(_, _, _)
\* the index of the RightParen that closes the d-th open parenthesis, from j on; 0 if none
CloseOf(toks, j, d) ==
  IF j > Len(toks) THEN 0
  ELSE IF toks[j].kind = "LeftParen" THEN CloseOf(toks, j + 1, d + 1)
  ELSE IF toks[j].kind = "RightParen"
  THEN IF d = 1 THEN j ELSE CloseOf(toks, j + 1, d - 1)
  ELSE CloseOf(toks, j + 1, d)

\* the index of the last token of the atom that starts at token i; 0 if it is not closed
AtomEnd(toks, i) ==
  IF toks[i].kind = "LowercaseId" THEN i ELSE CloseOf(toks, i + 1, 1)

RECURSIVE TopAtoms(_, _)
\* the atoms a1 a2 ... an that start at token i, each as its tokens, and the index
\* of the token after them; whole is FALSE when the last one is not closed
TopAtoms(toks, i) ==
  IF i > Len(toks) \/ toks[i].kind \notin AtomStart
  THEN [atoms |-> <<>>, next |-> i, whole |-> TRUE]
  ELSE IF AtomEnd(toks, i) = 0
  THEN [atoms |-> <<>>, next |-> i, whole |-> FALSE]
  ELSE LET rest == TopAtoms(toks, AtomEnd(toks, i) + 1)
       IN  [atoms |-> <<SubSeq(toks, i, AtomEnd(toks, i))>> \o rest.atoms,
            next  |-> rest.next,
            whole |-> rest.whole]

RECURSIVE FoldLeft(_, _)
\* Application(...Application(Application(acc, n1), n2)..., nk)
FoldLeft(acc, nodes) ==
  IF nodes = <<>> THEN acc
  ELSE FoldLeft(Application(acc, Head(nodes)), Tail(nodes))

\* C1 as claimed: when parse_term accepts the whole source as a term, the
\* rendering of that term parses again, to a structurally equal term.
C1_RoundTrip ==
  (phase = "reparsed" /\ result.p.current_token = None) =>
    (reparsed.ok /\ reparsed.node = result.node)

\* C5: application is left-associative.  When the source starts with n >= 2
\* atoms a1 ... an (identifiers or parenthesized terms, each a term on its
\* own), parse_term returns the left fold of the atoms' terms, and it stops
\* at the first token after them that is neither LowercaseId nor LeftParen.
C5_LeftAssociative ==
  phase = "parsed" =>
    LET toks  == TokensOf(input)
        top   == TopAtoms(toks, 1)
        alone == [i \in 1..Len(top.atoms) |-> Parse(Untokenize(top.atoms[i]))]
        nodes == [i \in 1..Len(top.atoms) |-> alone[i].node]
    IN  (/\ top.whole
         /\ Len(top.atoms) >= 2
         /\ \A i \in 1..Len(top.atoms) : alone[i].ok)
        => /\ result.ok
           /\ result.node = FoldLeft(Head(nodes), Tail(nodes))
           /\ StoppedAt(toks, result) = top.next
           /\ result.p.current_token.kind \notin AtomStart

\* C5 witness: three atoms, the second one in parentheses, folded to the left
C5_Witness ==
  /\ phase = "parsed"
  /\ input = <<"x", "(", " ", "y", ")", "x">>
  /\ result.node = Application(Application(Identifier(<<"x">>), Identifier(<<"y">>)),
                               Identifier(<<"x">>))

\* C6: unexpected token.  When the tokens of the source reach a position
\* (start of a term, parameter, dot, closing parenthesis) with a token that
\* position does not allow, parse_term returns UnexpectedToken with the kind
\* and text of that token, no term, and is left at that token; and it
\* returns UnexpectedToken in no other case.
C6_UnexpectedToken ==
  phase = "parsed" =>
    LET toks == TokensOf(input)
        g    == Grammar(toks)
    IN  /\ g.verdict = "unexpected" =>
             /\ ~result.ok
             /\ result.node = NoNode
             /\ result.err = UnexpectedToken(toks[g.at])
             /\ result.p.current_token = toks[g.at]
             /\ StoppedAt(toks, result) = g.at
        /\ result.err.error = "UnexpectedToken" => g.verdict = "unexpected"

\* C6 witness: `(x.` fails on the dot, where the closing parenthesis must follow
C6_Witness ==
  /\ phase = "parsed"
  /\ input = <<"(", "x", ".">>
  /\ result.err = UnexpectedToken(Token("Dot", <<".">>))

\* C7: unexpected end of input.  When the tokens of the source end where a
\* term must start, a parameter or a dot must follow, or a parenthesis is
\* still open, parse_term returns UnexpectedEndOfInput and no term; and it
\* returns UnexpectedEndOfInput in no other case.
C7_UnexpectedEndOfInput ==
  phase = "parsed" =>
    LET g == Grammar(TokensOf(input))
    IN  /\ g.verdict = "eoi" =>
             /\ ~result.ok
             /\ result.node = NoNode
             /\ result.err = UnexpectedEndOfInput
        /\ result.err.error = "UnexpectedEndOfInput" =>
             /\ g.verdict = "eoi"
             /\ result.p.current_token = None

\* C7 witness: `(λx.x` ends before the closing parenthesis
C7_Witness ==
  /\ phase = "parsed"
  /\ input = <<"(", "λ", "x", ".", "x">>
  /\ result.err = UnexpectedEndOfInput

----------------------------------------------------------------------------
(* Claims about eval, checked under SpecEval and SpecEvalFair. *)

RECURSIVE FreeVars(_)
\* the names of the free identifiers of a term
FreeVars(node) ==
  IF node.type = "Identifier" THEN {node.name}
  ELSE IF node.type = "Application" THEN FreeVars(node.lhs) \cup FreeVars(node.rhs)
  ELSE FreeVars(node.body) \ {node.param}

RECURSIVE NodeCount(_)
\* the number of nodes of a term
NodeCount(node) ==
  IF node.type = "Identifier" THEN 1
  ELSE IF node.type = "Application" THEN 1 + NodeCount(node.lhs) + NodeCount(node.rhs)
  ELSE 1 + NodeCount(node.body)

RECURSIVE HasRedex(_)
\* an application of an abstraction occurs in the term, outside every abstraction body
HasRedex(node) ==
  /\ node.type = "Application"
  /\ \/ node.lhs.type = "Abstraction"
     \/ HasRedex(node.lhs)
     \/ HasRedex(node.rhs)

RECURSIVE SubstituteNamed(_, _, _)
\* node with val in place of the identifiers named p, all else untouched
SubstituteNamed(p, val, node) ==
  IF node.type = "Identifier"
  THEN IF node.name = p THEN val ELSE node
  ELSE IF node.type = "Application"
  THEN Application(SubstituteNamed(p, val, node.lhs), SubstituteNamed(p, val, node.rhs))
  ELSE Abstraction(node.param, SubstituteNamed(p, val, node.body))

\* the term is an application whose evaluated lhs is an abstraction
HeadIsAbstraction == term.type = "Application" /\ Eval(term.lhs).type = "Abstraction"

\* C2 as claimed: when the evaluated lhs is λp. body, eval returns body with
\* the evaluated rhs in place of the identifiers named p, and the identifiers
\* of every other name untouched.
C2_BetaStep ==
  (EvalDone /\ HeadIsAbstraction) =>
    value = SubstituteNamed(Eval(term.lhs).param, Eval(term.rhs), Eval(term.lhs).body)

\* C3 as claimed: substitution is capture-avoiding.  Stated for the
\* abstractions over x, whose parameter is the name substitute looks for:
\* when x is free in the body, the free identifiers of the result are those
\* of the body other than x and those of the argument, none of them bound.
C3_CaptureAvoiding ==
  (/\ EvalDone
   /\ HeadIsAbstraction
   /\ Eval(term.lhs).param = <<"x">>
   /\ <<"x">> \in FreeVars(Eval(term.lhs).body))
  => FreeVars(value) =
       (FreeVars(Eval(term.lhs).body) \ {<<"x">>}) \cup FreeVars(Eval(term.rhs))

\* C4 as claimed: eval returns its input on an Identifier, an Abstraction,
\* and an Application whose evaluated lhs is not an Abstraction.
C4_IdentityOnNonReducible ==
  (EvalDone /\ ~HeadIsAbstraction) => value = term

\* C4 as amended: on an Application whose evaluated lhs is not an
\* Abstraction eval returns Application(eval(lhs), eval(rhs)); eval returns
\* its input on an Identifier, an Abstraction, and an Application in which
\* no application of an abstraction occurs outside the abstraction bodies.
C4_IdentityWithoutRedex ==
  /\ (EvalDone /\ ~HasRedex(term)) => value = term
  /\ (EvalDone /\ term.type = "Application" /\ ~HeadIsAbstraction) =>
       value = Application(Eval(term.lhs), Eval(term.rhs))

\* C4 witness: eval returned an application of applications unchanged
C4_Witness ==
  /\ EvalDone
  /\ ~HasRedex(term)
  /\ term.type = "Application"
  /\ term.lhs.type = "Application"
  /\ term.rhs.type = "Application"
  /\ value = term

\* C9: eval terminates.  Every eval run returns; it enters at most one call
\* per node of its input, since the substituted body is not evaluated again;
\* and what it returns is eval's value.
C9_EvalTerminates ==
  /\ <>EvalDone
  /\ [](steps <= NodeCount(term))
  /\ [](EvalDone => value = Eval(term))

\* C9 witness: eval returned on (λx. x x) (λx. x x), with that same term
C9_Witness ==
  /\ EvalDone
  /\ term = Omega
  /\ value = Omega

====
